---- MODULE Spec2Model ----
(***************************************************************************)
(* Model of kim_property's create/destroy core:                            *)
(*   src/kim_property/create.py   (registry globals, unset_property_id,    *)
(*                                 kim_property_create)                    *)
(*   src/kim_property/destroy.py  (kim_property_destroy)                   *)
(* The module-level globals are the state; every call of one of the two    *)
(* entry points is one action.  The caller's serialized collection is kept *)
(* in `text`, and `last` records the most recent call and its outcome.     *)
(***************************************************************************)
EXTENDS Integers, Sequences, FiniteSets, TLC

\* ------------------------------------------------------------------ bounds
\* instance ids used by the callers are 0..MaxInstanceId (0 is ill-formed)
MaxInstanceId == 2
\* cap on the length of the new_property_ids list
MaxNew == 2
\* cap on the number of records of a collection returned by a create call
MaxLen == 2
\* longest hand-written (possibly malformed) collection given to the calls
MaxArbLen == 3

\* ------------------------------------------------------- the outside world
\* Baseline snapshot returned by unpickle_kim_properties(): two standard
\* definitions, with their short names.
BaselineIds == {"idA", "idB"}

BaselineDefinition(id) == [pid |-> id, origin |-> "baseline"]

\* IdPathResolver: short name derived from a property id; "" stands for an
\* id the resolver cannot parse (get_property_id_path raises).
ShortName ==
  [id \in {"idA", "idB", "idC", "idC2", "idA2", "idX", "idD"} |->
     CASE id = "idA"  -> "a"
       [] id = "idB"  -> "b"
       [] id = "idC"  -> "c"
       [] id = "idC2" -> "c"
       [] id = "idA2" -> "a"
       [] id = "idX"  -> ""
       [] id = "idD"  -> "idA"]

\* What kim_edn.load and check_property_definition make of a definition file.
Definition(id) == [decodable |-> TRUE,  valid |-> TRUE,  pid |-> id]
InvalidFile    == [decodable |-> TRUE,  valid |-> FALSE, pid |-> "idC"]
UnreadableFile == [decodable |-> FALSE, valid |-> FALSE, pid |-> ""]

\* Files every working directory holds: "b", whose path is also the short
\* name of a baseline definition and which holds that definition, a file
\* with an invalid definition and a file that does not decode.
CommonFiles == ("b" :> Definition("idB")) @@ ("f5" :> InvalidFile)
                  @@ ("f6" :> UnreadableFile)

\* The working directories the process may run in.  Beside the common files:
\*   two new definitions that share the short name "c";
\*   a new definition "c" and one whose short name "a" is a baseline name;
\*   a new definition whose id the resolver cannot parse;
\*   a new definition whose short name is the string of a baseline id.
Directories ==
  { ("f1" :> Definition("idC")) @@ ("f2" :> Definition("idC2")) @@ CommonFiles,
    ("f1" :> Definition("idC")) @@ ("f3" :> Definition("idA2")) @@ CommonFiles,
    ("f7" :> Definition("idX")) @@ CommonFiles,
    ("f4" :> Definition("idD")) @@ CommonFiles }

FilePaths == {"f1", "f2", "f3", "f4", "f7", "b", "f5", "f6"}

\* A value that is not a `str`, passed as property_name.
NotAString == "<not-a-str>"

\* The strings callers pass as property_name.
PropertyNames ==
  {"a", "c", "idA", "idB", "idC", "idC2", "idA2", "idD"} \cup FilePaths

PropertyArgs == PropertyNames \cup {NotAString}

InstanceIdArgs == 0..MaxInstanceId

\* ----------------------------------------------------------------- codec
\* Python values handed over as `property_instances`.
NoneValue  == [form |-> "null"]
NoneText   == [form |-> "None"]
EmptyText  == [form |-> "empty"]
Garbage    == [form |-> "garbage"]

\* kim_edn.dumps / kim_edn.loads on a list of records
dumps(lst) == [form |-> "edn", items |-> lst]

EmptyListText == dumps(<< >>)

Decodable(t) == t.form = "edn"

loads(t) == t.items

\* ------------------------------------------------------------------ state
VARIABLES
  kim_properties,                 \* property id -> definition
  property_name_to_property_id,   \* short name  -> property id
  property_id_to_property_name,   \* property id -> short name
  new_property_ids,               \* None, or the list of newly added ids
  text,                           \* the caller's serialized collection
  last,                           \* the last call and its outcome
  files                           \* the files of the working directory

vars == <<kim_properties, property_name_to_property_id,
          property_id_to_property_name, new_property_ids, text, last, files>>

\* the four module globals as one value
Globals ==
  [kim_properties               |-> kim_properties,
   property_name_to_property_id |-> property_name_to_property_id,
   property_id_to_property_name |-> property_id_to_property_name,
   new_property_ids             |-> new_property_ids]

\* new_property_ids = None
NoNewIds == [none |-> TRUE, ids |-> << >>]

\* ---------------------------------------------------------- dict helpers
\* del d[k]
Del(d, k) == [x \in (DOMAIN d) \ {k} |-> d[x]]

\* d[k] = v
Put(d, k, v) == [x \in (DOMAIN d) \cup {k} |-> IF x = k THEN v ELSE d[x]]

\* v in lst
Contains(lst, v) == \E k \in 1..Len(lst) : lst[k] = v

\* lst.remove(v): drops the first element equal to v
ListRemove(lst, v) ==
  LET k == CHOOSE k \in 1..Len(lst) :
             lst[k] = v /\ \A j \in 1..(k - 1) : lst[j] # v
  IN  SubSeq(lst, 1, k - 1) \o SubSeq(lst, k + 1, Len(lst))

\* ------------------------------------------------------ unset_property_id
\* Result: the globals afterwards and whether a KeyError escaped.
unset_property_id(g, property_id) ==
  IF g.new_property_ids.none \/ ~Contains(g.new_property_ids.ids, property_id)
  THEN [g |-> g, raised |-> FALSE]
  ELSE IF property_id \notin DOMAIN g.kim_properties
  THEN [g |-> g, raised |-> TRUE]
  ELSE
    LET g1 == [g EXCEPT !.kim_properties = Del(@, property_id)] IN
    IF property_id \notin DOMAIN g1.property_id_to_property_name
    THEN [g |-> g1, raised |-> TRUE]
    ELSE
      LET _name == g1.property_id_to_property_name[property_id] IN
      IF _name \notin DOMAIN g1.property_name_to_property_id
      THEN [g |-> g1, raised |-> TRUE]
      ELSE
        LET ids == ListRemove(g1.new_property_ids.ids, property_id)
            g2  == [g1 EXCEPT
                      !.property_name_to_property_id = Del(@, _name),
                      !.property_id_to_property_name = Del(@, property_id),
                      !.new_property_ids =
                          IF Len(ids) = 0 THEN NoNewIds
                          ELSE [none |-> FALSE, ids |-> ids]]
        IN  [g |-> g2, raised |-> FALSE]

\* --------------------------------------------------- kim_property_create
isfile(property_name) == property_name \in DOMAIN files

check_instance_id_format(instance_id) == instance_id >= 1

\* position of a record in sorted(): after every record whose key is <=
RECURSIVE InsertSorted(_, _)
InsertSorted(lst, r) ==
  IF Len(lst) = 0 THEN << r >>
  ELSE IF lst[Len(lst)]["iid"] <= r["iid"] THEN Append(lst, r)
  ELSE Append(InsertSorted(SubSeq(lst, 1, Len(lst) - 1), r), lst[Len(lst)])

\* sorted(lst, key=lambda i: i["instance-id"]), a stable sort
RECURSIVE sorted(_)
sorted(lst) ==
  IF Len(lst) = 0 THEN << >>
  ELSE InsertSorted(sorted(SubSeq(lst, 1, Len(lst) - 1)), lst[Len(lst)])

Raise(g, error) == [g |-> g, outcome |-> error, result |-> NoneValue]

\* every record of the result is rebuilt from its two identity fields
FinishCreate_IdentityFieldsOnly(g, kim_property_instances, property_id, instance_id) ==
  LET new_property_instance == [pid |-> property_id, iid |-> instance_id]
      appended == Append(kim_property_instances, new_property_instance)
      ordered  == IF Len(appended) > 1 THEN sorted(appended) ELSE appended
      rebuilt  == [k \in 1..Len(ordered) |->
                     [pid |-> ordered[k]["pid"], iid |-> ordered[k]["iid"]]]
  IN  [g |-> g, outcome |-> "ok", result |-> dumps(rebuilt)]

\* the record is appended and the list is returned as it is
FinishCreate_NoSort(g, kim_property_instances, property_id, instance_id) ==
  LET new_property_instance == [pid |-> property_id, iid |-> instance_id]
  IN  [g |-> g, outcome |-> "ok",
       result |-> dumps(Append(kim_property_instances, new_property_instance))]

\* lines 215-226: build the record, append, sort, serialize
FinishCreate(g, kim_property_instances, property_id, instance_id) ==
  LET new_property_instance == [pid |-> property_id, iid |-> instance_id]
      appended == Append(kim_property_instances, new_property_instance)
      ordered  == IF Len(appended) > 1 THEN sorted(appended) ELSE appended
  IN  [g |-> g, outcome |-> "ok", result |-> dumps(ordered)]

\* lines 160-199: the property_name is a file
CreateFromFile(g, kim_property_instances, property_name, instance_id) ==
  LET pd == files[property_name] IN
  IF ~pd.decodable THEN Raise(g, "DecodeError")
  ELSE IF ~pd.valid THEN Raise(g, "DefinitionInvalidError")
  ELSE
    LET _property_id == pd.pid IN
    IF _property_id \in DOMAIN g.kim_properties
    THEN Raise(g, "PreexistingDefinitionError")
    ELSE
      LET g1 == [g EXCEPT !.kim_properties =
                             Put(@, _property_id,
                                 [pid |-> _property_id, origin |-> property_name])]
          _property_name == ShortName[_property_id]
      IN
      IF _property_name = "" THEN Raise(g1, "ShortNameError")
      ELSE
        LET g2 == [g1 EXCEPT
                     !.property_name_to_property_id =
                         Put(@, _property_name, _property_id),
                     !.property_id_to_property_name =
                         Put(@, _property_id, _property_name),
                     !.new_property_ids =
                         [none |-> FALSE, ids |-> Append(@.ids, _property_id)]]
        IN  FinishCreate(g2, kim_property_instances, _property_id, instance_id)

\* the record takes the string it was given, the name is never looked up
\* the resolved id is recorded as a new id, as the file branch does
CreateFromName_MarksNew(g, kim_property_instances, property_name, instance_id) ==
  LET mark(pid) == [g EXCEPT !.new_property_ids =
                       [none |-> FALSE, ids |-> Append(@.ids, pid)]] IN
  IF property_name \in DOMAIN g.property_name_to_property_id
  THEN FinishCreate(mark(g.property_name_to_property_id[property_name]),
                    kim_property_instances,
                    g.property_name_to_property_id[property_name], instance_id)
  ELSE IF property_name \in DOMAIN g.property_id_to_property_name
  THEN FinishCreate(mark(property_name), kim_property_instances,
                    property_name, instance_id)
  ELSE Raise(g, "UnknownPropertyError")

\* the list of ids is consulted before the list of names
CreateFromName_IdFirst(g, kim_property_instances, property_name, instance_id) ==
  IF property_name \in DOMAIN g.property_id_to_property_name
  THEN FinishCreate(g, kim_property_instances, property_name, instance_id)
  ELSE IF property_name \in DOMAIN g.property_name_to_property_id
  THEN FinishCreate(g, kim_property_instances,
                    g.property_name_to_property_id[property_name], instance_id)
  ELSE Raise(g, "UnknownPropertyError")

CreateFromName_NoLookup(g, kim_property_instances, property_name, instance_id) ==
  IF \/ property_name \in DOMAIN g.property_name_to_property_id
     \/ property_name \in DOMAIN g.property_id_to_property_name
  THEN FinishCreate(g, kim_property_instances, property_name, instance_id)
  ELSE Raise(g, "UnknownPropertyError")

\* lines 200-213: the property_name is a name or an id
CreateFromName(g, kim_property_instances, property_name, instance_id) ==
  IF property_name \in DOMAIN g.property_name_to_property_id
  THEN FinishCreate(g, kim_property_instances,
                    g.property_name_to_property_id[property_name], instance_id)
  ELSE IF property_name \in DOMAIN g.property_id_to_property_name
  THEN FinishCreate(g, kim_property_instances, property_name, instance_id)
  ELSE Raise(g, "UnknownPropertyError")

\* the instance id is looked for in the collection only after the reference
\* has been resolved
kim_property_create_LateDuplicateCheck(g, isInt, instance_id, property_name, property_instances) ==
  IF ~isInt THEN Raise(g, "InputTypeError")
  ELSE IF ~check_instance_id_format(instance_id) THEN Raise(g, "FormatError")
  ELSE IF property_name = NotAString THEN Raise(g, "InputTypeError")
  ELSE IF property_instances # NoneValue /\ ~Decodable(property_instances)
  THEN Raise(g, "DecodeError")
  ELSE
    LET kim_property_instances ==
          IF property_instances = NoneValue THEN << >>
          ELSE loads(property_instances)
        r == IF isfile(property_name)
             THEN CreateFromFile(g, kim_property_instances, property_name,
                                 instance_id)
             ELSE CreateFromName(g, kim_property_instances, property_name,
                                 instance_id)
    IN
    IF /\ r.outcome = "ok"
       /\ \E k \in 1..Len(kim_property_instances) :
            instance_id = kim_property_instances[k]["iid"]
    THEN Raise(r.g, "DuplicateInstanceIdError")
    ELSE r

\* the instance id is never looked for in the collection
kim_property_create_NoDuplicateCheck(g, isInt, instance_id, property_name, property_instances) ==
  IF ~isInt THEN Raise(g, "InputTypeError")
  ELSE IF ~check_instance_id_format(instance_id) THEN Raise(g, "FormatError")
  ELSE IF property_name = NotAString THEN Raise(g, "InputTypeError")
  ELSE IF property_instances # NoneValue /\ ~Decodable(property_instances)
  THEN Raise(g, "DecodeError")
  ELSE
    LET kim_property_instances ==
          IF property_instances = NoneValue THEN << >>
          ELSE loads(property_instances)
    IN
    IF isfile(property_name)
    THEN CreateFromFile(g, kim_property_instances, property_name, instance_id)
    ELSE CreateFromName(g, kim_property_instances, property_name, instance_id)

\* kim_property_create(instance_id, property_name, property_instances);
\* isInt tells whether instance_id is an `int`.
kim_property_create(g, isInt, instance_id, property_name, property_instances) ==
  IF ~isInt THEN Raise(g, "InputTypeError")
  ELSE IF ~check_instance_id_format(instance_id) THEN Raise(g, "FormatError")
  ELSE IF property_name = NotAString THEN Raise(g, "InputTypeError")
  ELSE IF property_instances # NoneValue /\ ~Decodable(property_instances)
  THEN Raise(g, "DecodeError")
  ELSE
    LET kim_property_instances ==
          IF property_instances = NoneValue THEN << >>
          ELSE loads(property_instances)
    IN
    IF \E k \in 1..Len(kim_property_instances) :
         instance_id = kim_property_instances[k]["iid"]
    THEN Raise(g, "DuplicateInstanceIdError")
    ELSE IF isfile(property_name)
    THEN CreateFromFile(g, kim_property_instances, property_name, instance_id)
    ELSE CreateFromName(g, kim_property_instances, property_name, instance_id)

\* -------------------------------------------------- kim_property_destroy
\* The `for` loop of lines 57-61: the iterator is a position in the list
\* that is being modified; `idx` is the 1-based position of the next item.
RECURSIVE destroy_loop(_, _, _, _)

\* unset_property_id is called for every record, matching or not
RECURSIVE destroy_loop_UnsetAlways(_, _, _, _)
destroy_loop_UnsetAlways(g, kim_property_instances, idx, instance_id) ==
  IF idx > Len(kim_property_instances)
  THEN [g |-> g, lst |-> kim_property_instances, raised |-> FALSE]
  ELSE
    LET a_property_instance == kim_property_instances[idx]
        u == unset_property_id(g, a_property_instance["pid"])
    IN
    IF u.raised
    THEN [g |-> u.g, lst |-> kim_property_instances, raised |-> TRUE]
    ELSE IF instance_id = a_property_instance["iid"]
    THEN destroy_loop_UnsetAlways(u.g,
                        ListRemove(kim_property_instances, a_property_instance),
                        idx + 1, instance_id)
    ELSE destroy_loop_UnsetAlways(u.g, kim_property_instances, idx + 1,
                                  instance_id)

destroy_loop(g, kim_property_instances, idx, instance_id) ==
  IF idx > Len(kim_property_instances)
  THEN [g |-> g, lst |-> kim_property_instances, raised |-> FALSE]
  ELSE
    LET a_property_instance == kim_property_instances[idx] IN
    IF instance_id = a_property_instance["iid"]
    THEN
      LET u == unset_property_id(g, a_property_instance["pid"]) IN
      IF u.raised
      THEN [g |-> u.g, lst |-> kim_property_instances, raised |-> TRUE]
      ELSE destroy_loop(u.g,
                        ListRemove(kim_property_instances, a_property_instance),
                        idx + 1, instance_id)
    ELSE destroy_loop(g, kim_property_instances, idx + 1, instance_id)

\* the text "None" is not recognised
IsEmptySentinel_NoNoneText(property_instances) ==
  \/ property_instances = NoneValue
  \/ property_instances = EmptyText
  \/ property_instances = EmptyListText

IsEmptySentinel(property_instances) ==
  \/ property_instances = NoneValue
  \/ property_instances = NoneText
  \/ property_instances = EmptyText
  \/ property_instances = EmptyListText

kim_property_destroy(g, property_instances, isInt, instance_id) ==
  IF ~isInt THEN Raise(g, "InputTypeError")
  ELSE IF IsEmptySentinel(property_instances)
  THEN [g |-> g, outcome |-> "ok", result |-> EmptyListText]
  ELSE IF ~Decodable(property_instances) THEN Raise(g, "DecodeError")
  ELSE
    LET d == destroy_loop(g, loads(property_instances), 1, instance_id) IN
    IF d.raised THEN Raise(d.g, "KeyError")
    ELSE [g |-> d.g, outcome |-> "ok", result |-> dumps(d.lst)]

\* ---------------------------------------------------------------- actions
BaselineGlobals ==
  [kim_properties               |-> [id \in BaselineIds |-> BaselineDefinition(id)],
   property_name_to_property_id |->
       [n \in {ShortName[id] : id \in BaselineIds} |->
          CHOOSE id \in BaselineIds : ShortName[id] = n],
   property_id_to_property_name |-> [id \in BaselineIds |-> ShortName[id]],
   new_property_ids             |-> NoNewIds]

NoCall == [op |-> "none"]

SetGlobals(g) ==
  /\ kim_properties' = g.kim_properties
  /\ property_name_to_property_id' = g.property_name_to_property_id
  /\ property_id_to_property_name' = g.property_id_to_property_name
  /\ new_property_ids' = g.new_property_ids

\* the caller keeps the returned text; after an exception it keeps its own
Return(r) ==
  /\ SetGlobals(r.g)
  /\ text' = IF r.outcome = "ok" THEN r.result ELSE text

Create(isInt, instance_id, property_name, property_instances) ==
  LET r == kim_property_create(Globals, isInt, instance_id, property_name,
                               property_instances) IN
  /\ Len(r.g.new_property_ids.ids) <= MaxNew
  /\ r.outcome = "ok" => Len(loads(r.result)) <= MaxLen
  /\ Return(r)
  /\ last' = [op |-> "create", outcome |-> r.outcome,
              fresh |-> (r.outcome = "ok" /\ property_instances = NoneValue)]
  /\ UNCHANGED files

Destroy(isInt, instance_id) ==
  LET r == kim_property_destroy(Globals, text, isInt, instance_id) IN
  /\ Return(r)
  /\ last' = [op |-> "destroy", outcome |-> r.outcome,
              removed |-> IF r.outcome = "ok" /\ Decodable(text)
                          THEN Len(loads(text)) - Len(loads(r.result))
                          ELSE 0]
  /\ UNCHANGED files

\* The (isInt, instance_id) pairs callers pass: every int of InstanceIdArgs,
\* and one value that is not an int.
InstanceArgs ==
  {<<TRUE, n>> : n \in InstanceIdArgs} \cup {<<FALSE, 0>>}

\* The (instance_id, property_name) arguments of the create calls: every
\* string with every well-formed instance id, and each argument rejected at
\* lines 127-136 (not an int, ill-formed id, not a str) with one partner.
CreateArgs ==
  {<<ia, pn>> \in InstanceArgs \X PropertyArgs :
      \/ ia[1] /\ check_instance_id_format(ia[2]) /\ pn # NotAString
      \/ pn = "a"
      \/ pn = NotAString /\ ia = <<TRUE, 1>>}

CreateCall ==
  \E args \in CreateArgs, property_instances \in {NoneValue, text} :
       Create(args[1][1], args[1][2], args[2], property_instances)

DestroyCall ==
  \E ia \in InstanceArgs : Destroy(ia[1], ia[2])

Next == CreateCall \/ DestroyCall

\* The process starts from the baseline snapshot, in one of the working
\* directories; the caller holds nothing.
Init ==
  /\ kim_properties = BaselineGlobals.kim_properties
  /\ property_name_to_property_id = BaselineGlobals.property_name_to_property_id
  /\ property_id_to_property_name = BaselineGlobals.property_id_to_property_name
  /\ new_property_ids = BaselineGlobals.new_property_ids
  /\ text = NoneValue
  /\ last = NoCall
  /\ files \in Directories

Spec == Init /\ [][Next]_vars

\* Hand-written collections: records of any content, in any order, possibly
\* sharing an instance id; a record may carry a field opaque to this code.
ArbRecords ==
  {[pid |-> "idA", iid |-> 1],
   [pid |-> "idB", iid |-> 1, note |-> "x"],
   [pid |-> "idA", iid |-> 2]}

ArbLists ==
  UNION {[1..n -> ArbRecords] : n \in 0..MaxArbLen}

ArbTexts ==
  {NoneValue, NoneText, EmptyText, Garbage} \cup {dumps(l) : l \in ArbLists}

\* The same program, the caller starting with any text of ArbTexts.
InitAny ==
  /\ kim_properties = BaselineGlobals.kim_properties
  /\ property_name_to_property_id = BaselineGlobals.property_name_to_property_id
  /\ property_id_to_property_name = BaselineGlobals.property_id_to_property_name
  /\ new_property_ids = BaselineGlobals.new_property_ids
  /\ text \in ArbTexts
  /\ last = NoCall
  /\ files \in Directories

SpecAny == InitAny /\ [][Next]_vars

\* ------------------------------------------------------------ vocabulary
\* the well-formed instance ids
ValidInstanceIds == {n \in InstanceIdArgs : check_instance_id_format(n)}

\* the records of the caller's collection (none when it holds no list)
Held == IF Decodable(text) THEN loads(text) ELSE << >>

InstanceIdsOf(lst) == {lst[k]["iid"] : k \in 1..Len(lst)}

\* a registered short name or a registered property id
KnownReference(g, p) ==
  \/ p \in DOMAIN g.property_name_to_property_id
  \/ p \in DOMAIN g.property_id_to_property_name

\* the id a known reference stands for
resolve(g, p) ==
  IF p \in DOMAIN g.property_name_to_property_id
  THEN g.property_name_to_property_id[p]
  ELSE p

SortedByInstanceId(lst) ==
  \A j \in 1..Len(lst) : \A k \in 1..Len(lst) :
     j < k => lst[j]["iid"] <= lst[k]["iid"]

UniqueInstanceIds(lst) ==
  \A j \in 1..Len(lst) : \A k \in 1..Len(lst) :
     j # k => lst[j]["iid"] # lst[k]["iid"]

\* ----------------------------------------------------------------- claims

\* C1 (as stated): for every valid instance id i and every known reference p
\* (a registered short name or a registered property id),
\* CreateOperation(i, p, None) succeeds and decodes to the single record
\* {property-id: resolve(p), instance-id: i}.
C1_AsStated ==
  [][\A i \in ValidInstanceIds : \A p \in PropertyNames :
       (KnownReference(Globals, p) /\ Create(TRUE, i, p, NoneValue)) =>
          /\ last'.outcome = "ok"
          /\ text' = dumps(<< [pid |-> resolve(Globals, p), iid |-> i] >>)]_vars

\* C1 (amended): the same, for every known reference p that does not name an
\* existing file: CreateOperation(i, p, None) succeeds and decodes to the
\* single record {property-id: resolve(p), instance-id: i}.
C1_CreateFromNone ==
  \A i \in ValidInstanceIds : \A p \in PropertyNames :
     (KnownReference(Globals, p) /\ ~isfile(p)) =>
        LET r == kim_property_create(Globals, TRUE, i, p, NoneValue) IN
        /\ r.outcome = "ok"
        /\ loads(r.result) = << [pid |-> resolve(Globals, p), iid |-> i] >>

\* a create call without a collection has just returned the one record of a
\* baseline definition, which only a name or an id can have designated
C1_Witness ==
  /\ last.op = "create" /\ last.fresh /\ last.outcome = "ok"
  /\ text = dumps(<< [pid |-> "idA", iid |-> 2] >>)

\* C2: for every valid instance id i, every string p and every collection
\* that already holds a record with instance id i, CreateOperation(i, p, C)
\* fails with DuplicateInstanceIdError and leaves the registry, both indices
\* and the list of new ids as they were.
C2_DuplicateRejected ==
  \A i \in ValidInstanceIds : \A p \in PropertyNames :
     (Decodable(text) /\ i \in InstanceIdsOf(loads(text))) =>
        LET r == kim_property_create(Globals, TRUE, i, p, text) IN
        /\ r.outcome = "DuplicateInstanceIdError"
        /\ r.g = Globals

\* a create call on the held collection has just been rejected as a duplicate
C2_Witness ==
  /\ last.op = "create" /\ last.outcome = "DuplicateInstanceIdError"
  /\ Len(Held) > 0

\* C3: every collection with more than one record reached from the empty
\* collection by create and destroy calls, each fed the previous result, is
\* sorted ascending by instance id.
C3_Sorted ==
  (Decodable(text) /\ Len(loads(text)) > 1) => SortedByInstanceId(loads(text))

\* a create call has just returned a collection of two records
C3_Witness ==
  /\ last.op = "create" /\ last.outcome = "ok"
  /\ Len(Held) = 2

\* C4: no collection reached from the empty collection by create and destroy
\* calls, each fed the previous result, holds two records with the same
\* instance id.
C4_Unique ==
  Decodable(text) => UniqueInstanceIds(loads(text))

\* a create call that would have repeated an instance id of a two-record
\* collection has just been refused
C4_Witness ==
  /\ last.op = "create" /\ last.outcome = "DuplicateInstanceIdError"
  /\ Len(Held) = 2

\* C5 (as stated): for every decodable collection, malformed ones included,
\* DestroyOperation(C, id) returns exactly the records of C whose instance id
\* differs from id, in their original order and unchanged.
C5_AsStated ==
  [][\A id \in InstanceIdArgs :
       (Decodable(text) /\ Destroy(TRUE, id)) =>
          /\ last'.outcome = "ok"
          /\ text' = dumps(SelectSeq(loads(text), LAMBDA r : r["iid"] # id))]_vars

\* C6: for every decodable collection C and every integer id that no record
\* of C carries, DestroyOperation(C, id) returns a collection equal to C and
\* leaves the registry, both indices and the list of new ids as they were.
C6_AbsentIdNoOp ==
  \A id \in InstanceIdArgs :
     (Decodable(text) /\ id \notin InstanceIdsOf(loads(text))) =>
        LET r == kim_property_destroy(Globals, text, TRUE, id) IN
        /\ r.outcome = "ok"
        /\ r.result = text
        /\ r.g = Globals

\* a destroy call has just returned a non-empty collection it removed nothing
\* from
C6_Witness ==
  /\ last.op = "destroy" /\ last.outcome = "ok" /\ last.removed = 0
  /\ Len(Held) > 0

\* C7: for each of the four empty sentinels (None, "None", "", "[]") and
\* every integer instance id, DestroyOperation returns the text "[]" and
\* leaves the registry, both indices and the list of new ids as they were.
C7_EmptySentinels ==
  \A t \in {NoneValue, NoneText, EmptyText, EmptyListText} :
     \A id \in InstanceIdArgs :
        LET r == kim_property_destroy(Globals, t, TRUE, id) IN
        /\ r.outcome = "ok"
        /\ r.result = EmptyListText
        /\ r.g = Globals

\* a destroy call has just returned "[]" without removing a record, while
\* definitions registered from files are present
C7_Witness ==
  /\ last.op = "destroy" /\ last.outcome = "ok" /\ last.removed = 0
  /\ text = EmptyListText
  /\ ~new_property_ids.none

\* C8 (as stated): for every collection C reached by creates, every valid
\* instance id i absent from C and every known name or id p,
\* DestroyOperation(CreateOperation(i, p, C), i) returns a collection equal
\* to C.
C8_AsStated ==
  \A i \in ValidInstanceIds : \A p \in PropertyNames :
     ( /\ text = NoneValue \/ Decodable(text)
       /\ i \notin InstanceIdsOf(Held)
       /\ KnownReference(Globals, p) /\ ~isfile(p) ) =>
        LET c == kim_property_create(Globals, TRUE, i, p, text)
            d == kim_property_destroy(c.g, c.result, TRUE, i)
        IN  /\ c.outcome = "ok"
            /\ d.outcome = "ok"
            /\ loads(d.result) = Held

\* C9 (as stated): after any failed CreateOperation the registry, both
\* indices and the list of new ids are what they were before the call, and
\* the caller's collection has no new record.
C9_AsStated ==
  [][(last'.op = "create" /\ last'.outcome # "ok") =>
        (Globals' = Globals /\ text' = text)]_vars

\* C10 (as stated): in every reachable state the id->name index has exactly
\* the registry's ids as keys, the name->id index has exactly their short
\* names as keys, and the two indices are inverses of each other.
C10_AsStated ==
  /\ DOMAIN property_id_to_property_name = DOMAIN kim_properties
  /\ DOMAIN property_name_to_property_id =
        {property_id_to_property_name[d] :
            d \in DOMAIN property_id_to_property_name}
  /\ \A d \in DOMAIN property_id_to_property_name :
        property_name_to_property_id[property_id_to_property_name[d]] = d

\* ------------------------------------------- vocabulary of the registry
\* the ids of new_property_ids (none when it is None)
DynamicSet == {new_property_ids.ids[k] : k \in 1..Len(new_property_ids.ids)}

DynamicSetOf(g) == {g.new_property_ids.ids[k] : k \in 1..Len(g.new_property_ids.ids)}

\* the file holds a definition the validator accepts, whose id has a short
\* name and is not in the registry
Registrable(path) ==
  /\ path \in DOMAIN files
  /\ files[path].decodable /\ files[path].valid
  /\ ShortName[files[path].pid] # ""
  /\ files[path].pid \notin DOMAIN kim_properties

\* the caller holds a collection (or nothing yet) without instance id i
Free(i) ==
  /\ text = NoneValue \/ Decodable(text)
  /\ i \notin InstanceIdsOf(Held)

RecordsOf(t) == {loads(t)[k] : k \in 1..Len(loads(t))}

\* CreateOperation(i, p, None) succeeds with the one record {d, i}
ResolvesTo(g, i, p, d) ==
  LET r == kim_property_create(g, TRUE, i, p, NoneValue) IN
  /\ r.outcome = "ok"
  /\ loads(r.result) = << [pid |-> d, iid |-> i] >>

\* C11 (as stated): a CreateOperation on a file holding a valid definition
\* (one whose id has a short name) that is not registered succeeds, returns
\* a collection with the record of that id, and puts the id in the registry
\* and in the list of new ids; and as long as an id registered this way is
\* registered, CreateOperation by its short name and by its id succeeds and
\* resolves to it.
C11_AsStated ==
  /\ \A i \in ValidInstanceIds : \A path \in FilePaths :
        (Registrable(path) /\ Free(i)) =>
           LET r == kim_property_create(Globals, TRUE, i, path, text)
               d == files[path].pid
           IN  /\ r.outcome = "ok"
               /\ [pid |-> d, iid |-> i] \in RecordsOf(r.result)
               /\ d \in DOMAIN r.g.kim_properties
               /\ d \in DynamicSetOf(r.g)
  /\ \A d \in DynamicSet : \A i \in ValidInstanceIds :
        d \in DOMAIN kim_properties =>
           /\ ResolvesTo(Globals, i, ShortName[d], d)
           /\ ResolvesTo(Globals, i, d, d)

\* the file holds a definition the validator accepts, whose id is in the
\* registry
AlreadyRegistered(path) ==
  /\ path \in DOMAIN files
  /\ files[path].decodable /\ files[path].valid
  /\ files[path].pid \in DOMAIN kim_properties

NoRepeat(lst) ==
  \A j \in 1..Len(lst) : \A k \in 1..Len(lst) : j # k => lst[j] # lst[k]

\* C12 (as stated): a CreateOperation on a file holding a definition whose
\* id is already in the registry fails with PreexistingDefinitionError and
\* changes neither the registry nor the indices nor the list of new ids; and
\* the list of new ids never holds the same id twice.
C12_AsStated ==
  /\ \A i \in ValidInstanceIds : \A path \in FilePaths :
        (AlreadyRegistered(path) /\ Free(i)) =>
           LET r == kim_property_create(Globals, TRUE, i, path, text) IN
           /\ r.outcome = "PreexistingDefinitionError"
           /\ r.g = Globals
  /\ NoRepeat(new_property_ids.ids)

\* the property ids of the records of lst with instance id `id`
ReferencedBy(lst, id) == {lst[k]["pid"] : k \in {j \in 1..Len(lst) : lst[j]["iid"] = id}}

\* d is in neither the registry nor the indices nor the list of new ids of g
Unregistered(g, d) ==
  /\ d \notin DOMAIN g.kim_properties
  /\ d \notin DOMAIN g.property_id_to_property_name
  /\ \A n \in DOMAIN g.property_name_to_property_id :
        g.property_name_to_property_id[n] # d
  /\ d \notin DynamicSetOf(g)

Unknown(g, i, p) ==
  kim_property_create(g, TRUE, i, p, NoneValue).outcome = "UnknownPropertyError"

\* C13 (as stated): when DestroyOperation(C, id) removes a record whose
\* property id d is in the list of new ids, then after the call d is in
\* neither the registry nor the indices nor the list of new ids, whatever
\* records remain, and a CreateOperation by the short name of d or by d fails
\* with UnknownPropertyError.
C13_AsStated ==
  [][\A id \in ValidInstanceIds :
       (Decodable(text) /\ Destroy(TRUE, id) /\ last'.outcome = "ok") =>
          \A d \in ReferencedBy(loads(text), id) \cap DynamicSet :
             /\ Unregistered(Globals', d)
             /\ \A i \in ValidInstanceIds :
                   /\ Unknown(Globals', i, ShortName[d])
                   /\ Unknown(Globals', i, d)]_vars

\* C14 (as stated): unset_property_id on an id that is not in the list of
\* new ids changes nothing, and every baseline id stays in the registry with
\* its original definition and stays resolvable by CreateOperation through its
\* short name and through its id (a name that is the path of a file of the
\* working directory is left aside: the file comes first in the resolution).
C14_AsStated ==
  /\ \A d \in DOMAIN kim_properties \cup DOMAIN ShortName :
        d \notin DynamicSet =>
           /\ unset_property_id(Globals, d).g = Globals
           /\ ~unset_property_id(Globals, d).raised
  /\ \A b \in BaselineIds :
        /\ b \in DOMAIN kim_properties
        /\ kim_properties[b] = BaselineDefinition(b)
        /\ \A i \in ValidInstanceIds :
              /\ ~isfile(ShortName[b]) => ResolvesTo(Globals, i, ShortName[b], b)
              /\ ~isfile(b) => ResolvesTo(Globals, i, b, b)

\* C15 (as stated): the list of new ids holds exactly the ids of the registry
\* that are not baseline ids: every id registered from a file is in it while
\* it is registered, no baseline id is in it, and no id stays in it once it
\* is out of the registry.
C15_AsStated ==
  DynamicSet = DOMAIN kim_properties \ BaselineIds

\* C16 (as stated): a CreateOperation that registers a new definition from a
\* file, followed by the DestroyOperation of that instance, restores the
\* registry, both indices and the list of new ids, also when the short name
\* of the definition is one that is already registered; and a further
\* CreateOperation from the same file succeeds again.
C16_AsStated ==
  [][\A i \in ValidInstanceIds : \A path \in FilePaths :
       (Registrable(path) /\ Free(i) /\ Create(TRUE, i, path, text)) =>
          LET d == kim_property_destroy(Globals', text', TRUE, i)
              again == kim_property_create(d.g, TRUE, i, path, d.result)
          IN  /\ last'.outcome = "ok"
              /\ d.outcome = "ok"
              /\ d.g.kim_properties = kim_properties
              /\ d.g.property_name_to_property_id = property_name_to_property_id
              /\ d.g.property_id_to_property_name = property_id_to_property_name
              /\ DynamicSetOf(d.g) = DynamicSet
              /\ again.outcome = "ok"]_vars

FileBranchErrors ==
  {"DecodeError", "DefinitionInvalidError", "PreexistingDefinitionError",
   "ShortNameError"}

\* the call returned normally and its result holds the record {d, i}
Added(r, d, i) ==
  /\ r.outcome = "ok"
  /\ [pid |-> d, iid |-> i] \in RecordsOf(r.result)

\* C17: the reference is resolved as a file path, then as a short name of the
\* name index, then as an id of the id index, and the first match wins.  A
\* string that names a file goes through the file branch (its definition is
\* registered and used, or the call fails with an error of that branch), also
\* when it is a registered name or id; a string that is no file and is a
\* registered name gives the id the name maps to, also when it is a
\* registered id; a string that is no file and no name and is a registered id
\* gives that id; any other string fails with UnknownPropertyError.
C17_ResolutionOrder ==
  \A i \in ValidInstanceIds : \A p \in PropertyNames :
     Free(i) =>
        LET r == kim_property_create(Globals, TRUE, i, p, text)
            names == DOMAIN property_name_to_property_id
            ids == DOMAIN property_id_to_property_name
        IN  /\ isfile(p) =>
                 /\ Registrable(p) => /\ Added(r, files[p].pid, i)
                                      /\ files[p].pid \in DynamicSetOf(r.g)
                 /\ ~Registrable(p) => r.outcome \in FileBranchErrors
            /\ (~isfile(p) /\ p \in names) =>
                 Added(r, property_name_to_property_id[p], i)
            /\ (~isfile(p) /\ p \notin names /\ p \in ids) => Added(r, p, i)
            /\ (~isfile(p) /\ p \notin names /\ p \notin ids) =>
                 r.outcome = "UnknownPropertyError"

\* "idA" is both a registered id and the short name of idD, "b" is both a
\* file and a registered short name, and two create calls have resolved to idD:
\* the second one through the name "idA" or the id "idD", since the file that
\* holds idD can register it only once
C17_Witness ==
  /\ last.op = "create" /\ last.outcome = "ok"
  /\ "idA" \in DOMAIN property_id_to_property_name
  /\ "idA" \in DOMAIN property_name_to_property_id
  /\ property_name_to_property_id["idA"] = "idD"
  /\ isfile("b") /\ "b" \in DOMAIN property_name_to_property_id
  /\ text = dumps(<< [pid |-> "idD", iid |-> 1], [pid |-> "idD", iid |-> 2] >>)

\* C18: a CreateOperation whose reference is not the path of a file leaves
\* the registry, both indices and the list of new ids as they were, for every
\* instance id, every reference and every collection, whether the call
\* returns a collection or fails.
C18_NameBranchPure ==
  \A isInt \in BOOLEAN : \A i \in InstanceIdArgs : \A p \in PropertyArgs :
     \A c \in {text, NoneValue} :
        ~isfile(p) => kim_property_create(Globals, isInt, i, p, c).g = Globals

\* two create calls have resolved baseline definitions, which no file can
\* register, while a definition registered from a file is held in the list of
\* new ids
C18_Witness ==
  /\ last.op = "create" /\ last.outcome = "ok"
  /\ text = dumps(<< [pid |-> "idA", iid |-> 1], [pid |-> "idB", iid |-> 2] >>)
  /\ DynamicSet # {}

\* how many times rec occurs in lst
Count(lst, rec) == Cardinality({k \in 1..Len(lst) : lst[k] = rec})

\* the id the reference p stands for in the call
resolvedId(p) == IF isfile(p) THEN files[p].pid ELSE resolve(Globals, p)

\* C19: a CreateOperation(i, p, C) that returns normally returns a collection
\* one record longer than C, in which every record of C occurs as often as in
\* C, with all its fields, and in which the record {resolvedId, i} occurs once
\* more than in C.
C19_AddsOneRecord ==
  \A i \in InstanceIdArgs : \A p \in PropertyNames :
     LET r == kim_property_create(Globals, TRUE, i, p, text)
         C == IF Decodable(text) THEN loads(text) ELSE << >>
         new == [pid |-> resolvedId(p), iid |-> i]
     IN  r.outcome = "ok" =>
           /\ Len(loads(r.result)) = Len(C) + 1
           /\ \A rec \in RecordsOf(r.result) \cup {C[k] : k \in 1..Len(C)} :
                 Count(loads(r.result), rec) =
                    Count(C, rec) + (IF rec = new THEN 1 ELSE 0)

\* a create call has returned a collection that holds a record with a field
\* that is none of the two identity fields, next to the record it added
C19_Witness ==
  /\ last.op = "create" /\ last.outcome = "ok"
  /\ text = dumps(<< [pid |-> "idB", iid |-> 1, note |-> "x"],
                     [pid |-> "idA", iid |-> 2] >>)

====
